---- MODULE Spec2Model ----
(***************************************************************************)
(* Model of the INA219 battery monitor: the sensor driver (INA219.py), its *)
(* stand-alone polling loop (INA219.py, __main__) and the BatteryMonitor   *)
(* class (batteryTray.py).                                                 *)
(*                                                                         *)
(* Units: bus voltage is carried in millivolts (the code's float volts     *)
(* times 1000), so `value * 0.004 < 6.0` is `value * 4 < 6000`; the two    *)
(* agree for every 13-bit value of the bus-voltage register.               *)
(***************************************************************************)
EXTENDS Integers, Sequences, FiniteSets, TLC

VARIABLES
    script,             \* which program runs: "INA219" (__main__) or "batteryTray"
    pc,                 \* "start", "ready", "failed", "exited", "off"
    names,              \* the names / attributes that have been assigned so far
    low,                \* INA219.py __main__: low
    low_voltage_count,  \* BatteryMonitor.low_voltage_count
    initTrace,          \* transport writes attempted by INA219.__init__, in order
    ioTrace,            \* transport reads attempted by the last operation, in order
    lastOp,             \* the last operation that ran
    raised,             \* the last operation ended by raising the transport error
    warnings,           \* remaining-time values of the advisories the last operation emitted
    poweroffNow,        \* os.system("sudo poweroff") calls made by the last operation
    poweroffs,          \* os.system("sudo poweroff") calls made so far
    polls,              \* polls started so far
    lowRun,             \* history: most recent successful polls in a row that observed < 6.0 V
    lastBus,            \* history: bus voltage (mV) the last successful poll observed, -1 if none
    before,             \* history: the counter's value when the last poll started
    fn,                 \* "program" while a program runs; else the function under exercise
    arg,                \* the input given to the function under exercise
    res                 \* what the function under exercise returned

vars == <<script, pc, names, low, low_voltage_count, initTrace, ioTrace, lastOp,
          raised, warnings, poweroffNow, poweroffs, polls, lowRun, lastBus, before,
          fn, arg, res>>

----------------------------------------------------------------------------
(* Bounds *)

MaxPolls == 33

----------------------------------------------------------------------------
(* Register definitions and configuration fields *)

REG_CONFIG == 0
REG_SHUNTVOLTAGE == 1
REG_BUSVOLTAGE == 2
REG_POWER == 3
REG_CURRENT == 4
REG_CALIBRATION == 5

RANGE_16V == 0
DIV_1_40MV == 0
ADCRES_12BIT_1S == 3
SANDBVOLT_CONTINUOUS == 7

(* Thresholds of the debounce logic *)
LowVoltage_mV == 6000
LowCycles == 30
CountdownStart == 60
CountdownStep == 2

----------------------------------------------------------------------------
(* Transport: a block read yields two bytes or fails *)

TransportError == << >>

\* bus-voltage register contents the transport may return:
\* 5.000 V, 5.996 V, 5.996 V with the status bits set, 6.000 V, 8.000 V
BusBlocks == { <<39, 16>>, <<46, 216>>, <<46, 223>>, <<46, 224>>, <<62, 128>> }

\* contents of a signed register (shunt voltage, current, power): -1; the programs
\* only print these readings, every content is decoded under SpecFn
SignedBlocks == { <<255, 255>> }

RECURSIVE BitOr(_, _)
BitOr(a, b) ==
    IF a = 0 THEN b
    ELSE IF b = 0 THEN a
    ELSE (IF a % 2 = 1 \/ b % 2 = 1 THEN 1 ELSE 0) + 2 * BitOr(a \div 2, b \div 2)

\* INA219.read: (data[0] << 8) | data[1]
read(data) == BitOr(data[1] * 256, data[2])

\* INA219.write: temp = [data >> 8, data & 0xFF]
write(data) == << data \div 256, data % 256 >>

Rd(reg, ok) == [op |-> "read", reg |-> reg, ok |-> ok]
Wr(reg, data, ok) == [op |-> "write", reg |-> reg, data |-> write(data), ok |-> ok]

\* Reads issued one after another; the first failing read raises and ends the sequence.
RECURSIVE Reads(_, _)
Reads(regs, blocks) ==
    IF regs = << >> THEN << >>
    ELSE IF blocks[1] = TransportError THEN << Rd(regs[1], FALSE) >>
    ELSE << Rd(regs[1], TRUE) >> \o Reads(Tail(regs), Tail(blocks))

Failed(trace) == \E i \in 1..Len(trace) : ~trace[i].ok

----------------------------------------------------------------------------
(* INA219 driver *)

\* int(0.04096 / ((1.5 / 32767) * 0.01)), in exact arithmetic
calibration_value == (4096 * 32767) \div 1500

config == BitOr(BitOr(RANGE_16V, DIV_1_40MV), BitOr(ADCRES_12BIT_1S, SANDBVOLT_CONTINUOUS))

\* variant: the configuration register is written first
set_calibration_16V_1_5A_configFirst(calOk, cfgOk) ==
    IF ~cfgOk THEN << Wr(REG_CONFIG, config, FALSE) >>
    ELSE << Wr(REG_CONFIG, config, TRUE),
            Wr(REG_CALIBRATION, calibration_value, calOk) >>

\* set_calibration_16V_1_5A: the writes it attempts, given whether each succeeds
set_calibration_16V_1_5A(calOk, cfgOk) ==
    IF ~calOk THEN << Wr(REG_CALIBRATION, calibration_value, FALSE) >>
    ELSE << Wr(REG_CALIBRATION, calibration_value, TRUE),
            Wr(REG_CONFIG, config, cfgOk) >>

\* INA219.__init__: opens the bus, then calibrates; the writes it attempts
INA219_init(openOk, calOk, cfgOk) ==
    IF ~openOk THEN << >> ELSE set_calibration_16V_1_5A(calOk, cfgOk)

\* variant: a failed write is swallowed and the object is returned all the same
INA219_constructed_swallow(openOk, calOk, cfgOk) == openOk

\* whether INA219.__init__ returned an object (did not raise)
INA219_constructed(openOk, calOk, cfgOk) ==
    openOk /\ ~Failed(INA219_init(openOk, calOk, cfgOk))

\* variant: the register is decoded as a signed value before the shift
getBusVoltage_V_signed(data) ==
    LET value == read(data) IN
    ((IF value > 32767 THEN value - 65536 ELSE value) \div 8) * 4

\* getBusVoltage_V, in millivolts: (raw >> 3) * 0.004 V
getBusVoltage_V(data) == (read(data) \div 8) * 4

----------------------------------------------------------------------------
(* Debounce logic *)

\* variant: a reading at or above 6.0 V leaves the counter as it is
main_debounce_sticky(count, bus_voltage) ==
    IF bus_voltage < LowVoltage_mV
    THEN IF count + 1 >= LowCycles
         THEN [count |-> count + 1, warn |-> << >>, poweroff |-> 1]
         ELSE [count |-> count + 1,
               warn |-> << CountdownStart - CountdownStep * (count + 1) >>,
               poweroff |-> 0]
    ELSE [count |-> count, warn |-> << >>, poweroff |-> 0]

\* variant: the countdown is computed from the counter before its increment
main_debounce_staleCountdown(count, bus_voltage) ==
    IF bus_voltage < LowVoltage_mV
    THEN IF count + 1 >= LowCycles
         THEN [count |-> count + 1, warn |-> << >>, poweroff |-> 1]
         ELSE [count |-> count + 1,
               warn |-> << CountdownStart - CountdownStep * count >>,
               poweroff |-> 0]
    ELSE [count |-> 0, warn |-> << >>, poweroff |-> 0]

\* variant: the shutdown test is == 30 instead of >= 30
main_debounce_exact(count, bus_voltage) ==
    IF bus_voltage < LowVoltage_mV
    THEN IF count + 1 = LowCycles
         THEN [count |-> count + 1, warn |-> << >>, poweroff |-> 1]
         ELSE [count |-> count + 1,
               warn |-> << CountdownStart - CountdownStep * (count + 1) >>,
               poweroff |-> 0]
    ELSE [count |-> 0, warn |-> << >>, poweroff |-> 0]

\* INA219.py __main__, the low-voltage block of one loop iteration
main_debounce(count, bus_voltage) ==
    IF bus_voltage < LowVoltage_mV
    THEN IF count + 1 >= LowCycles
         THEN [count |-> count + 1, warn |-> << >>, poweroff |-> 1]
         ELSE [count |-> count + 1,
               warn |-> << CountdownStart - CountdownStep * (count + 1) >>,
               poweroff |-> 0]
    ELSE [count |-> 0, warn |-> << >>, poweroff |-> 0]

\* variant: shutdown one cycle early
monitor_debounce_early(count, bus_voltage) ==
    IF bus_voltage < LowVoltage_mV
    THEN IF count + 1 >= LowCycles - 1
         THEN [count |-> count + 1, warn |-> << >>, poweroff |-> 1]
         ELSE [count |-> count + 1,
               warn |-> << CountdownStart - CountdownStep * (count + 1) >>,
               poweroff |-> 0]
    ELSE [count |-> 0, warn |-> << >>, poweroff |-> 0]

\* variant: shutdown one cycle late (> instead of >=)
monitor_debounce_late(count, bus_voltage) ==
    IF bus_voltage < LowVoltage_mV
    THEN IF count + 1 > LowCycles
         THEN [count |-> count + 1, warn |-> << >>, poweroff |-> 1]
         ELSE [count |-> count + 1,
               warn |-> << CountdownStart - CountdownStep * (count + 1) >>,
               poweroff |-> 0]
    ELSE [count |-> 0, warn |-> << >>, poweroff |-> 0]

\* variant: exactly 6.0 V counts as low (<= instead of <)
monitor_debounce_inclusive(count, bus_voltage) ==
    IF bus_voltage <= LowVoltage_mV
    THEN IF count + 1 >= LowCycles
         THEN [count |-> count + 1, warn |-> << >>, poweroff |-> 1]
         ELSE [count |-> count + 1,
               warn |-> << CountdownStart - CountdownStep * (count + 1) >>,
               poweroff |-> 0]
    ELSE [count |-> 0, warn |-> << >>, poweroff |-> 0]

\* BatteryMonitor.check_low_voltage, after battery_data has been obtained
monitor_debounce(count, bus_voltage) ==
    IF bus_voltage < LowVoltage_mV
    THEN IF count + 1 >= LowCycles
         THEN [count |-> count + 1, warn |-> << >>, poweroff |-> 1]
         ELSE [count |-> count + 1,
               warn |-> << CountdownStart - CountdownStep * (count + 1) >>,
               poweroff |-> 0]
    ELSE [count |-> 0, warn |-> << >>, poweroff |-> 0]

\* BatteryMonitor.get_battery_data: bus voltage, then current
get_battery_data(busBlock, curBlock) ==
    Reads(<< REG_BUSVOLTAGE, REG_CURRENT >>, << busBlock, curBlock >>)

\* variant: the counter is incremented before the data is read
check_low_voltage_result_countFirst(count, busBlock, curBlock) ==
    LET trace == get_battery_data(busBlock, curBlock) IN
    IF Failed(trace)
    THEN [count |-> count + 1, warn |-> << >>, poweroff |-> 0, raised |-> TRUE,
          trace |-> trace]
    ELSE LET d == monitor_debounce(count, getBusVoltage_V(busBlock)) IN
         [count |-> d.count, warn |-> d.warn, poweroff |-> d.poweroff,
          raised |-> FALSE, trace |-> trace]

\* BatteryMonitor.check_low_voltage as a function of the counter and the transport's answers
check_low_voltage_result(count, busBlock, curBlock) ==
    LET trace == get_battery_data(busBlock, curBlock) IN
    IF Failed(trace)
    THEN [count |-> count, warn |-> << >>, poweroff |-> 0, raised |-> TRUE, trace |-> trace]
    ELSE LET d == monitor_debounce(count, getBusVoltage_V(busBlock)) IN
         [count |-> d.count, warn |-> d.warn, poweroff |-> d.poweroff,
          raised |-> FALSE, trace |-> trace]

\* one iteration of the __main__ loop: bus, shunt, current, power, then the debounce
main_loop_result(count, busBlock, shuntBlock, curBlock, powBlock) ==
    LET trace == Reads(<< REG_BUSVOLTAGE, REG_SHUNTVOLTAGE, REG_CURRENT, REG_POWER >>,
                       << busBlock, shuntBlock, curBlock, powBlock >>) IN
    IF Failed(trace)
    THEN [count |-> count, warn |-> << >>, poweroff |-> 0, raised |-> TRUE, trace |-> trace]
    ELSE LET d == main_debounce(count, getBusVoltage_V(busBlock)) IN
         [count |-> d.count, warn |-> d.warn, poweroff |-> d.poweroff,
          raised |-> FALSE, trace |-> trace]

\* history of observations: consecutive successful polls below 6.0 V; a poll
\* is successful when the transport answered every read it makes
Observe(run, blocks) ==
    IF \E i \in 1..Len(blocks) : blocks[i] = TransportError THEN run
    ELSE IF getBusVoltage_V(blocks[1]) < LowVoltage_mV THEN run + 1 ELSE 0

Observed(last, blocks) ==
    IF \E i \in 1..Len(blocks) : blocks[i] = TransportError THEN last
    ELSE getBusVoltage_V(blocks[1])

----------------------------------------------------------------------------
(* Initial state: the process has started, nothing is constructed *)

Init ==
    /\ script \in {"INA219", "batteryTray"}
    /\ pc = "start"
    /\ names = {}
    /\ low = 0
    /\ low_voltage_count = 0
    /\ initTrace = << >>
    /\ ioTrace = << >>
    /\ lastOp = "none"
    /\ raised = FALSE
    /\ warnings = << >>
    /\ poweroffNow = 0
    /\ poweroffs = 0
    /\ polls = 0
    /\ lowRun = 0
    /\ lastBus = -1
    /\ before = 0
    /\ fn = "program"
    /\ arg = 0
    /\ res = 0

----------------------------------------------------------------------------
(* Operations *)

\* INA219.py __main__, up to the loop: ina219 = INA219(...); low = 0
main_start ==
    /\ script = "INA219"
    /\ pc = "start"
    /\ \E openOk, calOk, cfgOk \in BOOLEAN :
         /\ initTrace' = INA219_init(openOk, calOk, cfgOk)
         /\ IF INA219_constructed(openOk, calOk, cfgOk)
            THEN /\ pc' = "ready"
                 /\ names' = {"ina219", "low"}
                 /\ raised' = FALSE
            ELSE /\ pc' = "exited"
                 /\ names' = {}
                 /\ raised' = TRUE
    /\ low' = 0
    /\ lastOp' = "init"
    /\ UNCHANGED <<fn, arg, res>>
    /\ UNCHANGED <<script, low_voltage_count, ioTrace, warnings, poweroffNow,
                   poweroffs, polls, lowRun, lastBus, before>>

\* BatteryMonitor.__init__: self.ina = INA219.INA219(addr); self.low_voltage_count = 0
BatteryMonitor_init ==
    /\ script = "batteryTray"
    /\ pc = "start"
    /\ \E openOk, calOk, cfgOk \in BOOLEAN :
         /\ initTrace' = INA219_init(openOk, calOk, cfgOk)
         /\ IF INA219_constructed(openOk, calOk, cfgOk)
            THEN /\ pc' = "ready"
                 /\ names' = {"ina", "low_voltage_count"}
                 /\ raised' = FALSE
            ELSE /\ pc' = "failed"
                 /\ names' = {}
                 /\ raised' = TRUE
    /\ low_voltage_count' = 0
    /\ lastOp' = "init"
    /\ UNCHANGED <<fn, arg, res>>
    /\ UNCHANGED <<script, low, ioTrace, warnings, poweroffNow,
                   poweroffs, polls, lowRun, lastBus, before>>

\* BatteryMonitor.check_low_voltage
check_low_voltage ==
    /\ script = "batteryTray"
    /\ pc = "ready"
    /\ polls < MaxPolls
    /\ \E busBlock \in BusBlocks \cup {TransportError},
          curBlock \in SignedBlocks \cup {TransportError} :
         LET r == check_low_voltage_result(low_voltage_count, busBlock, curBlock) IN
         /\ low_voltage_count' = r.count
         /\ warnings' = r.warn
         /\ poweroffNow' = r.poweroff
         /\ poweroffs' = poweroffs + r.poweroff
         /\ raised' = r.raised
         /\ ioTrace' = r.trace
         /\ lowRun' = Observe(lowRun, << busBlock, curBlock >>)
         /\ lastBus' = Observed(lastBus, << busBlock, curBlock >>)
    /\ before' = low_voltage_count
    /\ polls' = polls + 1
    /\ lastOp' = "check_low_voltage"
    /\ UNCHANGED <<fn, arg, res>>
    /\ UNCHANGED <<script, pc, names, low, initTrace>>

\* BatteryMonitor.log_battery_data
log_battery_data ==
    /\ script = "batteryTray"
    /\ pc = "ready"
    /\ \E busBlock \in BusBlocks \cup {TransportError},
          curBlock \in SignedBlocks \cup {TransportError} :
         LET trace == get_battery_data(busBlock, curBlock) IN
         /\ ioTrace' = trace
         /\ raised' = Failed(trace)
    /\ warnings' = << >>
    /\ poweroffNow' = 0
    /\ lastOp' = "log_battery_data"
    /\ UNCHANGED <<fn, arg, res>>
    /\ UNCHANGED <<script, pc, names, low, low_voltage_count, initTrace,
                   poweroffs, polls, lowRun, lastBus, before>>

\* INA219.py __main__: one iteration of the while loop
main_loop ==
    /\ script = "INA219"
    /\ pc = "ready"
    /\ polls < MaxPolls
    /\ \E busBlock \in BusBlocks \cup {TransportError},
          shuntBlock \in SignedBlocks \cup {TransportError},
          curBlock \in SignedBlocks \cup {TransportError},
          powBlock \in SignedBlocks \cup {TransportError} :
         LET r == main_loop_result(low, busBlock, shuntBlock, curBlock, powBlock) IN
         /\ low' = r.count
         /\ warnings' = r.warn
         /\ poweroffNow' = r.poweroff
         /\ poweroffs' = poweroffs + r.poweroff
         /\ raised' = r.raised
         /\ ioTrace' = r.trace
         /\ pc' = IF r.raised THEN "exited" ELSE pc
         /\ lowRun' = Observe(lowRun, << busBlock, shuntBlock, curBlock, powBlock >>)
         /\ lastBus' = Observed(lastBus, << busBlock, shuntBlock, curBlock, powBlock >>)
    /\ before' = low
    /\ polls' = polls + 1
    /\ lastOp' = "main_loop"
    /\ UNCHANGED <<fn, arg, res>>
    /\ UNCHANGED <<script, names, low_voltage_count, initTrace>>

\* the effect of `sudo poweroff` on the process: once requested, the system
\* may go down between two polls; until then the loop keeps running
system_poweroff ==
    /\ pc = "ready"
    /\ poweroffs > 0
    /\ pc' = "off"
    /\ UNCHANGED <<fn, arg, res>>
    /\ UNCHANGED <<script, names, low, low_voltage_count, initTrace, ioTrace, lastOp,
                   raised, warnings, poweroffNow, poweroffs, polls, lowRun, lastBus, before>>

\* variant: log_battery_data runs the low-voltage check too
run_iteration_result_doublePoll(count, logBus, logCur, busBlock, curBlock) ==
    LET first == check_low_voltage_result(count, logBus, logCur) IN
    IF first.raised
    THEN [count |-> count, warn |-> << >>, poweroff |-> 0, raised |-> TRUE,
          trace |-> first.trace, polled |-> FALSE]
    ELSE LET r == check_low_voltage_result(first.count, busBlock, curBlock) IN
         [count |-> r.count, warn |-> r.warn, poweroff |-> r.poweroff,
          raised |-> r.raised, trace |-> first.trace \o r.trace, polled |-> TRUE]

\* one iteration of BatteryMonitor.run: log_battery_data(), then check_low_voltage();
\* an exception from the first leaves run before the second is called
run_iteration_result(count, logBus, logCur, busBlock, curBlock) ==
    LET logTrace == get_battery_data(logBus, logCur) IN
    IF Failed(logTrace)
    THEN [count |-> count, warn |-> << >>, poweroff |-> 0, raised |-> TRUE,
          trace |-> logTrace, polled |-> FALSE]
    ELSE LET r == check_low_voltage_result(count, busBlock, curBlock) IN
         [count |-> r.count, warn |-> r.warn, poweroff |-> r.poweroff,
          raised |-> r.raised, trace |-> logTrace \o r.trace, polled |-> TRUE]

\* BatteryMonitor.run, one iteration of its loop; what log_battery_data reads is
\* only logged, so one bus answer (8.000 V) and the failure are drawn
run ==
    /\ script = "batteryTray"
    /\ pc = "ready"
    /\ polls < MaxPolls
    /\ \E logBus \in {<<62, 128>>, TransportError},
          logCur \in SignedBlocks \cup {TransportError},
          busBlock \in BusBlocks \cup {TransportError},
          curBlock \in SignedBlocks \cup {TransportError} :
         \* when log_battery_data raises, check_low_voltage reads nothing
         /\ Failed(get_battery_data(logBus, logCur))
               => (busBlock = TransportError /\ curBlock = TransportError)
         /\ LET r == run_iteration_result(low_voltage_count, logBus, logCur, busBlock, curBlock) IN
            /\ low_voltage_count' = r.count
            /\ warnings' = r.warn
            /\ poweroffNow' = r.poweroff
            /\ poweroffs' = poweroffs + r.poweroff
            /\ raised' = r.raised
            /\ ioTrace' = r.trace
            /\ polls' = IF r.polled THEN polls + 1 ELSE polls
            /\ before' = IF r.polled THEN low_voltage_count ELSE before
            /\ lowRun' = IF r.polled THEN Observe(lowRun, << busBlock, curBlock >>) ELSE lowRun
            /\ lastBus' = IF r.polled THEN Observed(lastBus, << busBlock, curBlock >>) ELSE lastBus
    /\ lastOp' = "run"
    /\ UNCHANGED <<fn, arg, res>>
    /\ UNCHANGED <<script, pc, names, low, initTrace>>

Next ==
    \/ main_start
    \/ BatteryMonitor_init
    \/ check_low_voltage
    \/ log_battery_data
    \/ main_loop
    \/ system_poweroff
    \/ run

Spec == Init /\ [][Next]_vars

----------------------------------------------------------------------------
(* Properties *)

PollOps == {"check_low_voltage", "main_loop"}

\* the debounce counter of the running program
Streak == IF script = "INA219" THEN low ELSE low_voltage_count

\* the state of the debounce state machine, read off the counter
MonitorState ==
    IF Streak = 0 THEN "NORMAL"
    ELSE IF Streak < LowCycles THEN "WARNING"
    ELSE "SHUTDOWN_TRIGGERED"

LastPollOk == lastOp \in PollOps /\ ~raised

\* C1: over any sequence of polls the shutdown command is invoked at most once.
C1_ShutdownAtMostOnce == poweroffs <= 1

\* C2: SHUTDOWN_TRIGGERED is terminal: once the streak is 30 or more, no later
\* step brings it back below 30 (to NORMAL or to a WARNING state).
C2_ShutdownTerminal == [][Streak >= LowCycles => Streak' >= LowCycles]_vars

\* C3: a poll in which a register read fails leaves the counter at its pre-poll
\* value, invokes no shutdown, and raises the failure to the caller.
C3_FailedPollIsNoOp ==
    [][(polls' = polls + 1 /\ Failed(ioTrace'))
         => /\ Streak' = Streak
            /\ poweroffs' = poweroffs
            /\ poweroffNow' = 0
            /\ warnings' = << >>
            /\ raised']_vars

C3_Witness ==
    /\ lastOp = "check_low_voltage"
    /\ raised
    /\ Len(ioTrace) = 2 /\ ~ioTrace[2].ok
    /\ low_voltage_count = 7
    /\ before = 7

\* C4: a poll invokes the shutdown only if it and the 29 successful polls before
\* it all observed less than 6.0 V; 29 low readings followed by one reading of
\* 6.0 V or more leave the streak at 0 with no shutdown invoked.
C4_ShutdownOnlyAfterSustainedLow ==
    [][/\ poweroffs' # poweroffs
          => (polls' = polls + 1 /\ lowRun' >= LowCycles /\ lastBus' < LowVoltage_mV)
       /\ (polls' = polls + 1 /\ lowRun = LowCycles - 1 /\ lowRun' = 0)
          => (Streak' = 0 /\ poweroffs' = poweroffs /\ poweroffNow' = 0)]_vars

C4_Witness ==
    /\ LastPollOk
    /\ poweroffNow = 1
    /\ lowRun = LowCycles
    /\ lastBus < LowVoltage_mV

\* C5: 30 consecutive low polls give WARNING(1) .. WARNING(29) on the first 29
\* and SHUTDOWN_TRIGGERED, with the shutdown invoked, on exactly the 30th.
C5_ThirtyLowPolls ==
    LastPollOk =>
        /\ lowRun \in 1..(LowCycles - 1)
              => (MonitorState = "WARNING" /\ Streak = lowRun /\ poweroffNow = 0)
        /\ lowRun = LowCycles
              => (MonitorState = "SHUTDOWN_TRIGGERED" /\ poweroffNow = 1)
        /\ polls < LowCycles => poweroffs = 0

C5_Witness ==
    /\ LastPollOk
    /\ lowRun = LowCycles
    /\ polls = LowCycles + 2
    /\ poweroffNow = 1
    /\ poweroffs = 1

\* C6: a successful poll that observes 6.0 V or more leaves the counter at 0,
\* whatever it was before, and emits neither a warning nor a shutdown.
C6_GoodReadingResets ==
    [][(polls' = polls + 1 /\ ~Failed(ioTrace') /\ lastBus' >= LowVoltage_mV)
         => /\ Streak' = 0
            /\ warnings' = << >>
            /\ poweroffNow' = 0
            /\ poweroffs' = poweroffs]_vars

C6_Witness ==
    /\ LastPollOk
    /\ lastBus = LowVoltage_mV
    /\ before >= LowCycles
    /\ Streak = 0

\* C7: a successful poll below 6.0 V adds exactly 1 to the counter, and the
\* counter is never negative and always equals the number of most recent
\* successful polls in a row that observed less than 6.0 V.
C7_CounterIsRunLength ==
    /\ [](Streak >= 0 /\ Streak = lowRun)
    /\ [][(polls' = polls + 1 /\ ~Failed(ioTrace') /\ lastBus' < LowVoltage_mV)
            => Streak' = Streak + 1]_vars

C7_Witness ==
    /\ LastPollOk
    /\ lastBus < LowVoltage_mV
    /\ before = LowCycles
    /\ Streak = LowCycles + 1

\* C8: a low poll with new streak n, 1 <= n < 30, emits exactly one warning
\* whose remaining time is 60 - 2n (in 2..58, decreasing along a streak); polls
\* at 6.0 V or more, or with new streak 30 or more, emit none.
C8_WarningCountdown ==
    /\ [](lastOp \in PollOps =>
            IF ~raised /\ lastBus < LowVoltage_mV /\ Streak \in 1..(LowCycles - 1)
            THEN /\ warnings = << CountdownStart - CountdownStep * Streak >>
                 /\ warnings[1] \in 2..58
            ELSE warnings = << >>)
    /\ [][(polls' = polls + 1 /\ warnings # << >> /\ warnings' # << >>)
            => warnings'[1] < warnings[1]]_vars

C8_Witness ==
    /\ LastPollOk
    /\ Streak = LowCycles - 1
    /\ warnings = << 2 >>

\* C9: the calibration register is written before the configuration register,
\* and both writes have succeeded before any register read is issued.
C9_InitBeforeRead ==
    /\ \A i, j \in 1..Len(initTrace) :
          (initTrace[i].reg = REG_CALIBRATION /\ initTrace[j].reg = REG_CONFIG) => i < j
    /\ (Len(initTrace) > 0 => initTrace[1].reg = REG_CALIBRATION)
    /\ (ioTrace # << >> \/ polls > 0 \/ pc \in {"ready", "off"})
          => /\ Len(initTrace) = 2
             /\ initTrace[1] = Wr(REG_CALIBRATION, calibration_value, TRUE)
             /\ initTrace[2] = Wr(REG_CONFIG, config, TRUE)

C9_Witness ==
    /\ ioTrace # << >>
    /\ ioTrace[1] = Rd(REG_BUSVOLTAGE, TRUE)
    /\ Len(initTrace) = 2

\* C10: if a write of the initialization fails, the initialization fails, no
\* later write is attempted, and no driver or monitor exists to read or poll.
C10_FailedInitYieldsNothing ==
    Failed(initTrace) =>
        /\ \A i \in 1..Len(initTrace) : ~initTrace[i].ok => i = Len(initTrace)
        /\ raised
        /\ pc \in {"failed", "exited"}
        /\ names = {}
        /\ ioTrace = << >>
        /\ polls = 0
        /\ lastOp = "init"

C10_Witness ==
    /\ script = "batteryTray"
    /\ Len(initTrace) = 2
    /\ ~initTrace[2].ok
    /\ "low_voltage_count" \notin names

\* C11: the value written to the calibration register equals
\* floor(0.04096 / ((1.5 / 32767) * 0.01)) and is a 16-bit unsigned word, so
\* the two bytes the write splits it into are each in 0..255.
C11_CalibrationIsWord ==
    \A i \in 1..Len(initTrace) :
        initTrace[i].reg = REG_CALIBRATION =>
            /\ initTrace[i].data = write((4096 * 32767) \div 1500)
            /\ calibration_value \in 0..65535
            /\ initTrace[i].data[1] \in 0..255
            /\ initTrace[i].data[2] \in 0..255

----------------------------------------------------------------------------
(* The driver's functions, exercised one call at a time on every input *)

progVars == <<script, pc, names, low, low_voltage_count, initTrace, ioTrace, lastOp,
              raised, warnings, poweroffNow, poweroffs, polls, lowRun, lastBus, before>>

\* no program is running: nothing constructed, nothing polled
NoProgram ==
    /\ script = "none"
    /\ pc = "start"
    /\ names = {}
    /\ low = 0
    /\ low_voltage_count = 0
    /\ initTrace = << >>
    /\ ioTrace = << >>
    /\ lastOp = "none"
    /\ raised = FALSE
    /\ warnings = << >>
    /\ poweroffNow = 0
    /\ poweroffs = 0
    /\ polls = 0
    /\ lowRun = 0
    /\ lastBus = -1
    /\ before = 0

\* the contents a 16-bit register can have
Words == 0..65535

\* the two bytes the transport returns for a register holding r
WordBlock(r) == << r \div 256, r % 256 >>

\* the values the driver passes to write
DriverWrites == {calibration_value, config}

\* a transport that keeps the two bytes written, each as an 8-bit byte
mock_store(bytes) == << bytes[1] % 256, bytes[2] % 256 >>

\* write(reg, v) then read(reg) against that transport
write_then_read ==
    /\ fn = "word"
    /\ fn' = "roundtrip"
    /\ res' = read(mock_store(write(arg)))
    /\ UNCHANGED arg
    /\ UNCHANGED progVars

\* variant: 32767 is already taken as negative (>= instead of >)
getCurrent_mA_offByOne(data) ==
    LET value == read(data) IN
    IF value >= 32767 THEN value - 65536 ELSE value

\* getShuntVoltage_mV, in units of 0.01 mV
getShuntVoltage_mV(data) ==
    LET value == read(data) IN
    IF value > 32767 THEN value - 65536 ELSE value

\* getCurrent_mA, in units of current_lsb * 1000 mA
getCurrent_mA(data) ==
    LET value == read(data) IN
    IF value > 32767 THEN value - 65536 ELSE value

\* getPower_W, in units of power_lsb W
getPower_W(data) ==
    LET value == read(data) IN
    IF value > 32767 THEN value - 65536 ELSE value

\* the three signed readings of a register holding arg
signed_decode ==
    /\ fn = "word"
    /\ arg \in Words
    /\ fn' = "signed"
    /\ res' = [shunt |-> getShuntVoltage_mV(WordBlock(arg)),
               current |-> getCurrent_mA(WordBlock(arg)),
               power |-> getPower_W(WordBlock(arg))]
    /\ UNCHANGED arg
    /\ UNCHANGED progVars

\* one percent, in the units the percentage is carried in: (v - 6000 mV) / 24 is
\* (v - 6 V) / (8.4 V - 6 V) * 100, so the percentage is carried in 24ths of a percent
PercentScale == 24

Max(a, b) == IF a >= b THEN a ELSE b
Min(a, b) == IF a <= b THEN a ELSE b

\* variant: the arguments of the clamp are swapped, max(100, min(p, 0))
calculate_battery_percentage_swapped(voltage) ==
    LET p == voltage - 6000 IN
    Max(100 * PercentScale, Min(p, 0))

\* BatteryMonitor.calculate_battery_percentage, voltage in mV
calculate_battery_percentage(voltage) ==
    LET p == voltage - 6000 IN
    Max(0, Min(p, 100 * PercentScale))

\* INA219.py __main__: p = (bus_voltage - 6) / (8.4 - 6) * 100; p = max(0, min(p, 100))
main_percentage(bus_voltage) ==
    LET p == bus_voltage - 6000 IN
    Max(0, Min(p, 100 * PercentScale))

\* the state of charge both programs compute for a bus register holding arg
battery_percentage ==
    /\ fn = "word"
    /\ arg \in Words
    /\ fn' = "percent"
    /\ LET bus_voltage == getBusVoltage_V(WordBlock(arg)) IN
       res' = [voltage |-> bus_voltage,
               monitor |-> calculate_battery_percentage(bus_voltage),
               main |-> main_percentage(bus_voltage)]
    /\ UNCHANGED arg
    /\ UNCHANGED progVars

\* the bus voltage for a bus register holding arg
bus_voltage_of_word ==
    /\ fn = "word"
    /\ arg \in Words
    /\ fn' = "bus"
    /\ res' = getBusVoltage_V(WordBlock(arg))
    /\ UNCHANGED arg
    /\ UNCHANGED progVars

RANGE_32V == 1
DIV_2_80MV == 1
DIV_4_160MV == 2
DIV_8_320MV == 3

\* the values the four configuration fields can be given
ConfigFields ==
    [range : {RANGE_16V, RANGE_32V},
     gain : {DIV_1_40MV, DIV_2_80MV, DIV_4_160MV, DIV_8_320MV},
     adc : {ADCRES_12BIT_1S},
     mode : {SANDBVOLT_CONTINUOUS}]

\* the fields set_calibration_16V_1_5A uses
FieldsWritten ==
    [range |-> RANGE_16V, gain |-> DIV_1_40MV,
     adc |-> ADCRES_12BIT_1S, mode |-> SANDBVOLT_CONTINUOUS]

\* config = (range | gain | adc resolution | mode), as set_calibration_16V_1_5A forms it
config_word(f) == BitOr(BitOr(f.range, f.gain), BitOr(f.adc, f.mode))

\* the configuration word for the field values arg
encode_config ==
    /\ fn = "fields"
    /\ fn' = "config"
    /\ res' = config_word(arg)
    /\ UNCHANGED arg
    /\ UNCHANGED progVars

\* INA219.read as a call: one block read of the register, which returns or raises
read_call(address, block) ==
    IF block = TransportError
    THEN [trace |-> << Rd(address, FALSE) >>, raised |-> TRUE, value |-> << >>]
    ELSE [trace |-> << Rd(address, TRUE) >>, raised |-> FALSE, value |-> << read(block) >>]

getShuntVoltage_mV_call(block) ==
    LET r == read_call(REG_SHUNTVOLTAGE, block) IN
    IF r.raised THEN r ELSE [r EXCEPT !.value = << getShuntVoltage_mV(block) >>]

getBusVoltage_V_call(block) ==
    LET r == read_call(REG_BUSVOLTAGE, block) IN
    IF r.raised THEN r ELSE [r EXCEPT !.value = << getBusVoltage_V(block) >>]

getCurrent_mA_call(block) ==
    LET r == read_call(REG_CURRENT, block) IN
    IF r.raised THEN r ELSE [r EXCEPT !.value = << getCurrent_mA(block) >>]

\* variant: the power reading reads the current register
getPower_W_call_wrongRegister(block) ==
    LET r == read_call(REG_CURRENT, block) IN
    IF r.raised THEN r ELSE [r EXCEPT !.value = << getPower_W(block) >>]

getPower_W_call(block) ==
    LET r == read_call(REG_POWER, block) IN
    IF r.raised THEN r ELSE [r EXCEPT !.value = << getPower_W(block) >>]

DriverReads == {"getShuntVoltage_mV", "getBusVoltage_V", "getCurrent_mA", "getPower_W"}

\* one call of one of the four read operations; the transport answers arg
driver_read ==
    /\ fn = "block"
    /\ fn' = "driver_read"
    /\ \E op \in DriverReads :
         res' = [op |-> op,
                 call |-> CASE op = "getShuntVoltage_mV" -> getShuntVoltage_mV_call(arg)
                            [] op = "getBusVoltage_V" -> getBusVoltage_V_call(arg)
                            [] op = "getCurrent_mA" -> getCurrent_mA_call(arg)
                            [] op = "getPower_W" -> getPower_W_call(arg)]
    /\ UNCHANGED arg
    /\ UNCHANGED progVars

InitFn ==
    /\ NoProgram
    /\ res = 0
    /\ \/ fn = "word" /\ arg \in Words \cup DriverWrites
       \/ fn = "fields" /\ arg \in ConfigFields
       \/ fn = "block" /\ arg \in BusBlocks \cup SignedBlocks \cup {TransportError}

NextFn ==
    \/ write_then_read
    \/ signed_decode
    \/ battery_percentage
    \/ bus_voltage_of_word
    \/ encode_config
    \/ driver_read

SpecFn == InitFn /\ [][NextFn]_vars

\* C12: against a transport that stores the two bytes written and returns them
\* on read, write then read returns the value written, for every value the
\* driver writes (the calibration value in particular).
C12_RoundTrip ==
    (fn = "roundtrip" /\ arg \in DriverWrites) => res = arg

\* C13: for every raw value r in 0..65535 the signed decode of the shunt,
\* current and power readings gives r when r < 32768 and r - 65536 otherwise,
\* and it is a bijection from 0..65535 onto -32768..32767.
C13_SignedDecode ==
    fn = "signed" =>
        \A d \in {res.shunt, res.current, res.power} :
            /\ d = (IF arg < 32768 THEN arg ELSE arg - 65536)
            /\ d \in -32768..32767
            \* one-to-one: the raw value is recovered from the decoded one
            /\ d % 65536 = arg
            \* onto: the value arg - 32768 of the range is the decode of a raw value
            /\ LET t == arg - 32768
                   pre == WordBlock(t % 65536) IN
               /\ getShuntVoltage_mV(pre) = t
               /\ getCurrent_mA(pre) = t
               /\ getPower_W(pre) = t

C13_Witness ==
    /\ fn = "signed"
    /\ arg = 65535
    /\ res.shunt = -1
    /\ res.current = -1
    /\ res.power = -1

\* the specified state of charge for v millivolts, in 24ths of a percent
ClampedPercent(v) ==
    IF v <= 6000 THEN 0
    ELSE IF v >= 8400 THEN 100 * PercentScale
    ELSE v - 6000

\* C14: the state-of-charge percent equals clamp((v - 6.0) / 2.4 * 100, 0, 100),
\* is within 0..100, is non-decreasing in the voltage, and is 0 at 6.0 V and
\* 4.0 V, 100 at 8.4 V and 10.0 V, and 50 at 7.2 V.
C14_PercentClamped ==
    fn = "percent" =>
        \A p \in {res.monitor, res.main} :
            /\ p = ClampedPercent(res.voltage)
            /\ p >= 0
            /\ p <= 100 * PercentScale
            /\ p <= calculate_battery_percentage(res.voltage + 4)
            /\ p <= main_percentage(res.voltage + 4)
            /\ res.voltage = 6000 => p = 0
            /\ res.voltage = 8400 => p = 100 * PercentScale
            /\ res.voltage = 4000 => p = 0
            /\ res.voltage = 10000 => p = 100 * PercentScale
            /\ res.voltage = 7200 => p = 50 * PercentScale

C14_Witness ==
    /\ fn = "percent"
    /\ res.voltage = 7200
    /\ res.monitor = 50 * PercentScale
    /\ res.main = 50 * PercentScale

\* C18: for every raw value r in 0..65535 the bus voltage is (r >> 3) * 4 mV:
\* never negative, independent of the three low-order bits of r, and not
\* subjected to the two's-complement decode.
C18_BusVoltageUnsigned ==
    fn = "bus" =>
        /\ res = (arg \div 8) * 4
        /\ res >= 0
        /\ \A status \in 0..7 : getBusVoltage_V(WordBlock((arg \div 8) * 8 + status)) = res
        /\ arg >= 32768 => res >= 16384

C18_Witness ==
    /\ fn = "bus"
    /\ arg = 65535
    /\ res = 32764

\* C15: the configuration word is the union of four separately encoded fields,
\* each in its own bit positions, so that the fields are recoverable from the
\* word and changing the value of one field changes the word.
C15_ConfigFieldsSeparate ==
    fn = "config" =>
        /\ arg = FieldsWritten => res = config
        /\ \A other \in ConfigFields : other # arg => config_word(other) # res

\* C17: each of the four read operations issues exactly one transport read per
\* call, to its own register (shunt 0x01, bus 0x02, current 0x04, power 0x03);
\* when that read fails the operation raises at once, without a retry and
\* without a value.
C17_OneReadPerCall ==
    fn = "driver_read" =>
        LET c == res.call IN
        /\ Len(c.trace) = 1
        /\ c.trace[1].op = "read"
        /\ c.trace[1].reg = (CASE res.op = "getShuntVoltage_mV" -> 1
                               [] res.op = "getBusVoltage_V" -> 2
                               [] res.op = "getCurrent_mA" -> 4
                               [] res.op = "getPower_W" -> 3)
        /\ c.trace[1].ok = (arg # TransportError)
        /\ arg = TransportError => (c.raised /\ c.value = << >>)
        /\ arg # TransportError => (~c.raised /\ Len(c.value) = 1)

C17_Witness ==
    /\ fn = "driver_read"
    /\ arg = TransportError
    /\ res.op = "getPower_W"
    /\ res.call.raised
    /\ res.call.trace = << Rd(REG_POWER, FALSE) >>

\* C16: low_voltage_count is changed only by check_low_voltage (called directly
\* or from run); log_battery_data leaves it unchanged, and one iteration of
\* run changes it by at most one step (+1 or reset to 0).
C16_OnlyThePollChangesTheCounter ==
    [][/\ low_voltage_count' # low_voltage_count
          => (lastOp' \in {"check_low_voltage", "run"} /\ polls' = polls + 1)
       /\ lastOp' = "log_battery_data" => low_voltage_count' = low_voltage_count
       /\ lastOp' = "run"
          => low_voltage_count' \in {low_voltage_count, low_voltage_count + 1, 0}]_vars

C16_Witness ==
    /\ lastOp = "run"
    /\ ~raised
    /\ Len(ioTrace) = 4
    /\ before = 2
    /\ low_voltage_count = 3

----------------------------------------------------------------------------
(* The two copies of the debounce logic, fed the same bus voltages *)

InitEquiv ==
    /\ script = "both"
    /\ pc = "ready"
    /\ names = {"ina219", "low", "ina", "low_voltage_count"}
    /\ low = 0
    /\ low_voltage_count = 0
    /\ initTrace = INA219_init(TRUE, TRUE, TRUE)
    /\ ioTrace = << >>
    /\ lastOp = "init"
    /\ raised = FALSE
    /\ warnings = << >>
    /\ poweroffNow = 0
    /\ poweroffs = 0
    /\ polls = 0
    /\ lowRun = 0
    /\ lastBus = -1
    /\ before = 0
    /\ fn = "lockstep"
    /\ arg = << >>
    /\ res = [main |-> [warn |-> << >>, poweroff |-> 0],
              monitor |-> [warn |-> << >>, poweroff |-> 0]]

\* one poll of each program, the transport answering both with the same contents
lockstep_poll ==
    /\ fn = "lockstep"
    /\ polls < MaxPolls
    /\ \E busBlock \in BusBlocks, shuntBlock, curBlock, powBlock \in SignedBlocks :
         LET m == main_loop_result(low, busBlock, shuntBlock, curBlock, powBlock)
             t == check_low_voltage_result(low_voltage_count, busBlock, curBlock) IN
         /\ low' = m.count
         /\ low_voltage_count' = t.count
         /\ res' = [main |-> [warn |-> m.warn, poweroff |-> m.poweroff],
                    monitor |-> [warn |-> t.warn, poweroff |-> t.poweroff]]
         /\ arg' = busBlock
         /\ lastBus' = getBusVoltage_V(busBlock)
    /\ polls' = polls + 1
    /\ UNCHANGED <<script, pc, names, initTrace, ioTrace, lastOp, raised, warnings,
                   poweroffNow, poweroffs, lowRun, before, fn>>

NextEquiv ==
    \/ lockstep_poll

SpecEquiv == InitEquiv /\ [][NextEquiv]_vars

\* C19: on every sequence of observed bus voltages the __main__ loop and
\* check_low_voltage hold the same counter after each poll, warn on the same
\* polls with the same remaining time, and invoke the shutdown on the same polls.
C19_CopiesAgree ==
    fn = "lockstep" =>
        /\ low = low_voltage_count
        /\ res.main.warn = res.monitor.warn
        /\ res.main.poweroff = res.monitor.poweroff

C19_Witness ==
    /\ fn = "lockstep"
    /\ polls = LowCycles + 1
    /\ low = LowCycles + 1
    /\ low_voltage_count = LowCycles + 1
    /\ res.main.poweroff = 1
    /\ res.monitor.poweroff = 1

====
